---- MODULE Spec2Model ----
(***************************************************************************)
(* Model of the hierarchical task forest of gtd-firebase: the Firestore    *)
(* "tasks" collection of one owner, the browser client's fetched snapshot, *)
(* the mutation handlers of InteractiveGTDApp / TaskDetailEditor /         *)
(* addEmailTask that write to the collection, the tree functions of App    *)
(* (buildTaskTree, filterCompletedTrees) and the outline importer          *)
(* import-mlo.js.                                                          *)
(***************************************************************************)
EXTENDS Integers, Sequences, FiniteSets, TLC

\* ------------------------------------------------------------------ bounds
MaxId == 4          \* number of document ids the store can hand out
MaxOps == 4         \* number of handler runs in one behaviour
Today == 10         \* new Date(), as a day number of 2025 (1 = 2025-01-01)

Ids == 1..MaxId

\* ------------------------------------------------- field value encodings
Absent == -1        \* the field is not present on the document (undefined)
Null == 0           \* the field is present and null
InboxAlias == -2    \* the string '<Inbox>' given as a parentId
InboxTitle == "<Inbox>"

VARIABLES store,    \* Firestore collection 'tasks': id -> document
          view,     \* App's `tasks` state: the documents of the last fetchTasks
          nextId,   \* next fresh document id (auto ids are never reused)
          ops,      \* number of handlers run so far
          last,     \* the handler that ran last and how it ended
          ui,       \* state of the mounted components (voice, keyboard)
          calls     \* the handler invocations in flight: their locals and position

vars == <<store, view, nextId, ops, last, ui, calls>>

\* ---------------------------------------------------------- Firestore
\* A write of a handler: addDoc / ref.set, updateDoc, deleteDoc.
addDoc(i, d) == [kind |-> "set", id |-> i, doc |-> d, fields |-> <<>>]
updateDoc(i, f) == [kind |-> "upd", id |-> i, doc |-> <<>>, fields |-> f]
deleteDoc(i) == [kind |-> "del", id |-> i, doc |-> <<>>, fields |-> <<>>]

\* updateDoc rejects with 'not-found' when the document does not exist;
\* addDoc and deleteDoc do not (deleteDoc of a missing document resolves).
WriteOk(st, w) == w.kind = "upd" => w.id \in DOMAIN st

Merge(d, f) == [k \in DOMAIN d |-> IF k \in DOMAIN f THEN f[k] ELSE d[k]]

ApplyWrite(st, w) ==
  CASE w.kind = "set" -> [i \in DOMAIN st \cup {w.id} |-> IF i = w.id THEN w.doc ELSE st[i]]
    [] w.kind = "upd" -> [st EXCEPT ![w.id] = Merge(st[w.id], w.fields)]
    [] w.kind = "del" -> [i \in DOMAIN st \ {w.id} |-> st[i]]

\* The awaited writes of one handler, in program order.  The first write
\* that rejects (not-found, or the store fault `fault` = its index) throws:
\* the handler's catch block runs and the later writes are never issued.
RECURSIVE RunFrom(_, _, _, _)
RunFrom(st, ws, k, fault) ==
  IF k > Len(ws) THEN [store |-> st, ok |-> TRUE, done |-> Len(ws)]
  ELSE IF k = fault \/ ~WriteOk(st, ws[k]) THEN [store |-> st, ok |-> FALSE, done |-> k - 1]
  ELSE RunFrom(ApplyWrite(st, ws[k]), ws, k + 1, fault)

Run(st, ws, fault) == RunFrom(st, ws, 1, fault)

\* where("title","==","<Inbox>"), where("parentId","==",null): an equality
\* filter matches only documents on which the field is present.
inboxQuery(st) == {i \in DOMAIN st : st[i].title = InboxTitle /\ st[i].parentId = Null}

\* ---------------------------------------------------------- documents
BlankDoc == [title |-> "", parentId |-> Absent, childCount |-> Absent, level |-> Absent,
             path |-> <<>>, status |-> "", recurrencePattern |-> "", dueDate |-> Absent]

\* the Inbox document written by getOrCreateInboxId / getOrCreateInbox
InboxDoc == [BlankDoc EXCEPT !.title = InboxTitle, !.status = "next_action", !.childCount = 0]

\* `x || d` of JavaScript on a numeric field: absent, null and 0 are falsy
OrElse(x, d) == IF x = Absent \/ x = Null THEN d ELSE x

\* ---------------------------------------------------------- the tree
\* buildTaskTree: a task is a root when parentId is falsy or names no
\* fetched task; otherwise it hangs under its parent.
RECURSIVE Reach(_, _)
Reach(v, S) ==
  LET T == S \cup {c \in DOMAIN v : v[c].parentId \in S}
  IN IF T = S THEN S ELSE Reach(v, T)

\* (variant: every task is pushed to the root list, linked or not)
buildTaskTree_pushAll(v) == DOMAIN v

buildTaskTree(v) == {i \in DOMAIN v : v[i].parentId \in {Absent, Null} \/ v[i].parentId \notin DOMAIN v}
InTree(v) == Reach(v, buildTaskTree(v))
Subtree(v, i) == Reach(v, {i})

\* parentTask.children of the built tree: the tasks pushed under p
children(v, p) == {c \in DOMAIN v : v[c].parentId = p}

\* filterCompletedTrees: `task.completedDate && task.completedDate.toDate() < now`
\* drops the node with its branch; the children of a kept node are filtered
\* in turn.  `now` is today at 00:00.  The result is the set of kept nodes.
\* (variant: a task completed exactly at `now` is dropped as well)
completedBefore_inclusive(d, now) ==
  /\ "completedDate" \in DOMAIN d
  /\ d.completedDate \notin {Absent, Null}
  /\ d.completedDate <= now

completedBefore(d, now) ==
  /\ "completedDate" \in DOMAIN d
  /\ d.completedDate \notin {Absent, Null}
  /\ d.completedDate < now

RECURSIVE filterNode(_, _, _)
filterNode(v, S, now) ==
  LET kept == {t \in S : ~completedBefore(v[t], now)}
  IN kept \cup UNION {filterNode(v, children(v, t), now) : t \in kept}

filterCompletedTrees(v, now) == filterNode(v, buildTaskTree(v), now)

\* filterTasks: a task is kept when it matches the status filter or one of
\* its kept children does.
Matches(filter, d) ==
  \/ filter = "all"
  \/ filter = "active" /\ d.status # "done"
  \/ filter = "completed" /\ d.status = "done"

filterTasks(v, filter) == {i \in InTree(v) : \E d \in Subtree(v, i) : Matches(filter, v[d])}

Filters == {"active", "all", "completed"}

\* `tasks.find(t => t.title === '<Inbox>' && !t.parentId)` over the roots
inboxTask(v) == {i \in buildTaskTree(v) : v[i].title = InboxTitle /\ v[i].parentId \in {Absent, Null}}

\* ---------------------------------------------------------- dates
\* Dates are day numbers of 2025; addDays is +, addMonths (date-fns) keeps
\* the day of the month, clamped to the length of the target month.
MonthLen == <<31, 28, 31, 30, 31, 30, 31, 31, 30, 31, 30, 31>>

RECURSIVE MonthOf(_, _)
MonthOf(day, m) == IF m = 12 \/ day <= MonthLen[m] THEN <<m, day>> ELSE MonthOf(day - MonthLen[m], m + 1)

RECURSIVE DaysBefore(_)
DaysBefore(m) == IF m = 1 THEN 0 ELSE DaysBefore(m - 1) + MonthLen[m - 1]

addDays(day, n) == day + n

addMonths(day, n) ==
  LET md == MonthOf(day, 1)
      m2 == md[1] + n
      d2 == IF md[2] > MonthLen[m2] THEN MonthLen[m2] ELSE md[2]
  IN DaysBefore(m2) + d2

\* the switch of handleToggleComplete
NextDueDate(pattern, baseDate) ==
  CASE pattern = "daily" -> addDays(baseDate, 1)
    [] pattern = "weekly" -> addDays(baseDate, 7)
    [] pattern = "biweekly" -> addDays(baseDate, 14)
    [] pattern = "monthly" -> addMonths(baseDate, 1)
    [] OTHER -> addDays(baseDate, 7)

\* ---------------------------------------------------------- handlers
Outcome(op, target, ok) == [op |-> op, target |-> target, ok |-> ok]

\* A client handler: its writes run in order inside try; onUpdate (a
\* re-fetch) is called only when none of them threw.
ClientCommit(ws, fault, op, target) ==
  LET r == Run(store, ws, fault)
  IN /\ ops < MaxOps
     /\ ops' = ops + 1
     /\ store' = r.store
     /\ view' = IF r.ok THEN r.store ELSE view
     /\ nextId' = nextId + Cardinality({k \in 1..r.done : ws[k].kind = "set"})
     /\ last' = Outcome(op, target, r.ok)
     /\ UNCHANGED <<ui, calls>>

Init ==
  /\ store = <<>>
  /\ view = <<>>
  /\ nextId = 1
  /\ ops = 0
  /\ last = Outcome("init", 0, TRUE)
  /\ ui = <<>>
  /\ calls = <<>>

\* onRefresh / fetchTasks
fetchTasks ==
  /\ view # store
  /\ view' = store
  /\ last' = Outcome("fetchTasks", 0, TRUE)
  /\ UNCHANGED <<store, nextId, ops, ui, calls>>

\* The ids a voice descriptor can name: those the store has handed out so
\* far (auto ids cannot be guessed ahead), or one it never hands out.
UnknownId == MaxId + 1
VoiceIds == (1..(nextId - 1)) \cup {UnknownId}

\* What the voice assistant's descriptor may carry for an 'add'.
VoiceAddParents == {Absent, InboxAlias} \cup VoiceIds
VoiceAddSchedules == {<<"", Absent>>, <<"weekly", 1>>}

newTaskData(parentId, sched) ==
  [BlankDoc EXCEPT !.title = "v", !.parentId = parentId,
                   !.recurrencePattern = sched[1], !.dueDate = sched[2]]

\* handleTaskUpdate, case 'add' (with getOrCreateInboxId)
handleTaskUpdate_add(p, sched, fault) ==
  LET needInbox == p \in {Absent, Null, InboxAlias}
      found == inboxQuery(store)
  IN IF needInbox /\ found = {}
     THEN /\ nextId + 1 <= MaxId
          /\ ClientCommit(<<addDoc(nextId, InboxDoc), addDoc(nextId + 1, newTaskData(nextId, sched))>>,
                          fault, "handleTaskUpdate:add", nextId + 1)
     ELSE /\ nextId <= MaxId
          /\ \E parentId \in (IF needInbox THEN found ELSE {p}) :
               ClientCommit(<<addDoc(nextId, newTaskData(parentId, sched))>>,
                            fault, "handleTaskUpdate:add", nextId)

\* handleTaskUpdate, case 'update': { taskId, ...updates }
VoiceUpdates == {[parentId |-> p] : p \in VoiceIds \cup {Null}}

handleTaskUpdate_update(taskId, updates, fault) ==
  ClientCommit(<<updateDoc(taskId, updates)>>, fault, "handleTaskUpdate:update", taskId)

\* handleTaskUpdate, case 'complete'
handleTaskUpdate_complete(taskId, fault) ==
  ClientCommit(<<updateDoc(taskId, [status |-> "done"])>>, fault, "handleTaskUpdate:complete", taskId)

\* handleTaskUpdate, case 'delete'
handleTaskUpdate_delete(taskId, fault) ==
  ClientCommit(<<deleteDoc(taskId)>>, fault, "handleTaskUpdate:delete", taskId)

\* ---- InteractiveTaskItem: handlers of a rendered task of the snapshot
\* handleAddChild
handleAddChild(t, fault) ==
  /\ t \in InTree(view)
  /\ nextId <= MaxId
  /\ ClientCommit(<<addDoc(nextId, [BlankDoc EXCEPT !.title = "c", !.parentId = t,
                                                   !.level = OrElse(view[t].level, 0) + 1,
                                                   !.status = "next_action", !.childCount = 0]),
                    updateDoc(t, [childCount |-> OrElse(view[t].childCount, 0) + 1])>>,
                  fault, "handleAddChild", t)

\* the successor written by handleToggleComplete
SuccessorDoc(task) ==
  [BlankDoc EXCEPT !.title = task.title,
                   !.parentId = OrElse(task.parentId, Null),
                   !.level = OrElse(task.level, 0),
                   !.status = "next_action",
                   !.recurrencePattern = task.recurrencePattern,
                   !.dueDate = NextDueDate(task.recurrencePattern, OrElse(task.dueDate, Today)),
                   !.childCount = 0]

\* handleToggleComplete (the check-circle of a task row)
handleToggleComplete(t, fault) ==
  LET task == view[t]
      newStatus == IF task.status = "done" THEN "next_action" ELSE "done"
      recurs == newStatus = "done" /\ task.recurrencePattern # ""
  IN /\ t \in InTree(view)
     /\ recurs => nextId <= MaxId
     /\ ClientCommit(<<updateDoc(t, [status |-> newStatus])>>
                       \o (IF recurs THEN <<addDoc(nextId, SuccessorDoc(task))>> ELSE <<>>),
                     fault, "handleToggleComplete", t)

\* the children of a rendered task, in the order of the fetched list
RECURSIVE SortedSeq(_)
SortedSeq(S) == IF S = {} THEN <<>>
                ELSE LET m == CHOOSE x \in S : \A y \in S : x <= y IN <<m>> \o SortedSeq(S \ {m})

\* deleteRecursive: the rendered children first, then the task itself
RECURSIVE deleteRecursive(_, _, _)
deleteRecursive(v, rendered, t) ==
  LET RECURSIVE each(_)
      each(ks) == IF ks = <<>> THEN <<>> ELSE deleteRecursive(v, rendered, Head(ks)) \o each(Tail(ks))
  IN each(SortedSeq({c \in rendered : v[c].parentId = t})) \o <<deleteDoc(t)>>

\* handleDelete (the trash button of a task row), confirmed by the user
handleDelete(t, filter, fault) ==
  LET task == view[t]
  IN /\ t \in filterTasks(view, filter)
     /\ ClientCommit(deleteRecursive(view, filterTasks(view, filter), t)
                       \o (IF task.parentId \notin {Absent, Null}
                           THEN <<updateDoc(task.parentId, [childCount |-> IF OrElse(task.childCount, 1) - 1 > 0
                                                                       THEN OrElse(task.childCount, 1) - 1 ELSE 0])>>
                           ELSE <<>>),
                     fault, "handleDelete", t)

\* ---- keyboard shortcuts: handleTaskAction on the selected task
handleTaskAction_toggleComplete(t, fault) ==
  /\ t \in InTree(view)
  /\ ClientCommit(<<updateDoc(t, [status |-> IF view[t].status = "done" THEN "next_action" ELSE "done"])>>,
                  fault, "handleTaskAction:toggleComplete", t)

handleTaskAction_delete(t, fault) ==
  /\ t \in InTree(view)
  /\ ClientCommit(<<deleteDoc(t)>>, fault, "handleTaskAction:delete", t)

\* ---- QuickAddTask.handleAdd: parentId is inboxId in the inbox view and
\* null in the all-tasks view; the level prop is never passed (0).
QuickAddParents(v) == {Null} \cup inboxTask(v)

handleAdd(parentId, fault) ==
  /\ parentId \in QuickAddParents(view)
  /\ nextId <= MaxId
  /\ ClientCommit(<<addDoc(nextId, [BlankDoc EXCEPT !.title = "q", !.parentId = parentId, !.level = 0,
                                                   !.status = "next_action", !.childCount = 0])>>,
                  fault, "handleAdd", nextId)

\* ---- TaskDetailEditor + handleSaveFromEditor
\* App's `tasks` state, handed to the editor as allTasks: the pruned tree
tasks(v) == filterCompletedTrees(v, Today)

\* getAllDescendantIds: the ids below a node of that tree
RECURSIVE getAllDescendantIds(_, _, _)
getAllDescendantIds(v, kept, node) ==
  LET kids == children(v, node) \cap kept
  IN kids \cup UNION {getAllDescendantIds(v, kept, c) : c \in kids}

\* getFlattentenedTasksForParentSelection: the walk skips the edited task
\* and the excluded ids, and does not enter the children of a skipped node.
\* (variant: only the edited task itself is left out, its children and the
\* excluded ids are still walked)
RECURSIVE getFlattentenedTasksForParentSelection_walksAll(_, _, _, _, _)
getFlattentenedTasksForParentSelection_walksAll(v, kept, tasksToFlatten, currentTaskId, excludedDescendantIds) ==
  LET flat == {t \in tasksToFlatten : t # currentTaskId}
  IN flat \cup UNION {getFlattentenedTasksForParentSelection_walksAll(v, kept, children(v, t) \cap kept,
                                                                       currentTaskId, excludedDescendantIds) : t \in tasksToFlatten}

RECURSIVE getFlattentenedTasksForParentSelection(_, _, _, _, _)
getFlattentenedTasksForParentSelection(v, kept, tasksToFlatten, currentTaskId, excludedDescendantIds) ==
  LET flat == {t \in tasksToFlatten : t # currentTaskId /\ t \notin excludedDescendantIds}
  IN flat \cup UNION {getFlattentenedTasksForParentSelection(v, kept, children(v, t) \cap kept,
                                                              currentTaskId, excludedDescendantIds) : t \in flat}

potentialParents(v, t) ==
  getFlattentenedTasksForParentSelection(v, tasks(v), buildTaskTree(v) \cap tasks(v), t,
                                         getAllDescendantIds(v, tasks(v), t))

\* formData.parentId: initially `task.parentId || null`, then a pick from
\* the list or the "remove parent" button.  handleSubmit sends it with the
\* other form fields (a missing due date goes out as null).
EditorParents(v, t) == {OrElse(v[t].parentId, Null), Null} \cup potentialParents(v, t)

handleSaveFromEditor(t, p, fault) ==
  /\ t \in InTree(view)
  /\ p \in EditorParents(view, t)
  /\ ClientCommit(<<updateDoc(t, [parentId |-> p, dueDate |-> OrElse(view[t].dueDate, Null)])>>,
                  fault, "handleSaveFromEditor", t)

\* ---- Cloud Function addEmailTask (with getOrCreateInbox); the browser
\* is not involved, so its snapshot stays as it is.
newTask(inboxId) ==
  [BlankDoc EXCEPT !.title = "e", !.parentId = inboxId, !.status = "next_action",
                   !.childCount = 0, !.level = 1, !.path = <<InboxTitle, "e">>, !.dueDate = Null]

EmailCommit(ws, fault, newId) ==
  LET r == Run(store, ws, fault)
  IN /\ ops < MaxOps
     /\ ops' = ops + 1
     /\ store' = r.store
     /\ nextId' = nextId + Cardinality({k \in 1..r.done : ws[k].kind = "set"})
     /\ last' = Outcome("addEmailTask", newId, r.ok)
     /\ UNCHANGED <<view, ui, calls>>

addEmailTask(fault) ==
  LET found == inboxQuery(store)
  IN IF found = {}
     THEN /\ nextId + 1 <= MaxId
          /\ EmailCommit(<<addDoc(nextId, InboxDoc), addDoc(nextId + 1, newTask(nextId))>>, fault, nextId + 1)
     ELSE /\ nextId <= MaxId
          /\ \E inboxId \in found : EmailCommit(<<addDoc(nextId, newTask(inboxId))>>, fault, nextId)

Next ==
  \/ fetchTasks
  \/ \E p \in VoiceAddParents, sched \in VoiceAddSchedules : handleTaskUpdate_add(p, sched, 0)
  \/ \E t \in VoiceIds, u \in VoiceUpdates : handleTaskUpdate_update(t, u, 0)
  \/ \E t \in VoiceIds : handleTaskUpdate_complete(t, 0)
  \/ \E t \in VoiceIds : handleTaskUpdate_delete(t, 0)
  \/ \E t \in Ids : handleAddChild(t, 0)
  \/ \E t \in Ids : handleToggleComplete(t, 0)
  \/ \E t \in Ids, f \in Filters : handleDelete(t, f, 0)
  \/ \E t \in Ids : handleTaskAction_toggleComplete(t, 0)
  \/ \E t \in Ids : handleTaskAction_delete(t, 0)
  \/ \E p \in Ids \cup {Null} : handleAdd(p, 0)
  \/ \E t \in Ids, p \in Ids \cup {Null} : handleSaveFromEditor(t, p, 0)
  \/ addEmailTask(0)

Spec == Init /\ [][Next]_vars

\* ---- the same handlers over a store whose writes may be rejected
\* (connectivity, permission): write number `fault` of the handler throws.
MaxFault == 3

NextFault ==
  \/ \E p \in Ids \cup {Null} : handleAdd(p, 0)
  \/ \E sched \in VoiceAddSchedules : handleTaskUpdate_add(Absent, sched, 0)
  \/ \E t \in Ids, f \in 0..MaxFault : handleAddChild(t, f)
  \/ \E t \in Ids, f \in 0..MaxFault : handleToggleComplete(t, f)
  \/ \E t \in Ids, fl \in Filters, f \in 0..MaxFault : handleDelete(t, fl, f)

SpecFault == Init /\ [][NextFault]_vars

\* ---- the tree functions over any fetched list: parent references may
\* dangle or form cycles, tasks may have been completed on an earlier day.
MaxTasks == 3

ParentRefs(n) == {Absent, Null} \cup (1..(n + 1))
CompletedDates == {Null, Today - 1, Today}

TaskDoc(p, c) ==
  [title |-> "t", parentId |-> p, completedDate |-> c,
   status |-> IF c = Null THEN "next_action" ELSE "done"]

InitForest ==
  /\ \E n \in 0..MaxTasks :
       /\ store \in [1..n -> {TaskDoc(p, c) : p \in ParentRefs(n), c \in CompletedDates}]
       /\ nextId = n + 1
  /\ view = <<>>
  /\ ops = 0
  /\ last = Outcome("init", 0, TRUE)
  /\ ui = <<>>
  /\ calls = <<>>

\* the editor is opened on a task of the tree and computes its parent list
TaskDetailEditor(t) ==
  /\ t \in tasks(view)
  /\ last' = Outcome("TaskDetailEditor", t, TRUE)
  /\ UNCHANGED <<store, view, nextId, ops, ui, calls>>

NextForest ==
  \/ fetchTasks
  \/ \E t \in 1..MaxTasks : TaskDetailEditor(t)

SpecForest == InitForest /\ [][NextForest]_vars

\* ---- import-mlo.js: the MyLifeOrganized outline importer
\* The text of an XML element holding a number is a sequence of decimal
\* digits; a missing element has no text.  parseInt of a missing or empty
\* text is NaN, written Absent: like 0 it is falsy.
NoText == <<>>

RECURSIVE parseIntFrom(_, _, _)
parseIntFrom(str, k, acc) ==
  IF k > Len(str) THEN acc ELSE parseIntFrom(str, k + 1, acc * 10 + str[k])

parseInt(str) == IF Len(str) = 0 THEN Absent ELSE parseIntFrom(str, 1, 0)

\* `${n}` of a non-negative integer
RECURSIVE toString(_)
toString(n) == IF n < 10 THEN <<n>> ELSE Append(toString(n \div 10), n % 10)

calculateImportance(importance, urgency) ==
  LET imp == OrElse(parseInt(importance), 100)
      urg == OrElse(parseInt(urgency), 100)
      score(x) == IF x >= 150 THEN 5 ELSE IF x >= 100 THEN 4 ELSE IF x >= 75 THEN 3
                  ELSE IF x >= 50 THEN 2 ELSE 1
  IN [importance |-> score(imp), urgency |-> score(urg)]

\* an outline node <TaskNode>: Caption "" stands for a missing caption
TaskNode(caption, importance, urgency, kids) ==
  [Caption |-> caption, Importance |-> importance, Urgency |-> urgency, TaskNode |-> kids]

\* processTaskNode: the nodes of one level, in order; a node without a
\* caption is skipped and its children take its place.  (The forEach over
\* the siblings is evaluated by halves to keep the evaluation shallow.)
RECURSIVE processTaskNode(_)
processTaskNode(nodes) ==
  IF Len(nodes) = 0 THEN <<>>
  ELSE IF Len(nodes) = 1
  THEN LET taskNode == nodes[1]
           importance == calculateImportance(taskNode.Importance, taskNode.Urgency)
       IN IF taskNode.Caption = ""
          THEN processTaskNode(taskNode.TaskNode)
          ELSE << [title |-> taskNode.Caption,
                   status |-> "next_action",
                   importance |-> importance.importance,
                   urgency |-> importance.urgency,
                   mloImportance |-> OrElse(parseInt(taskNode.Importance), 100),
                   mloUrgency |-> OrElse(parseInt(taskNode.Urgency), 100),
                   children |-> processTaskNode(taskNode.TaskNode)] >>
  ELSE LET h == Len(nodes) \div 2
       IN processTaskNode(SubSeq(nodes, 1, h)) \o processTaskNode(SubSeq(nodes, h + 1, Len(nodes)))

MAX_OPS_PER_BATCH == 499

\* importToFirestore's locals: the batches (each the set operations put
\* into it, in order), the counters, and the next auto id of doc().
\* newBatches(first) is the state before the first node: one empty batch.
newBatches(first) ==
  [batches |-> << <<>> >>, currentBatchIndex |-> 1, operationsInCurrentBatch |-> 0,
   totalTasksProcessed |-> 0, nextRef |-> first]

\* (variant: the full batch is never closed, every operation goes to the first)
closeFullBatch_never(b) == b

\* (variant: the batch is closed only once it holds more than the maximum)
closeFullBatch_late(b) ==
  IF b.operationsInCurrentBatch > MAX_OPS_PER_BATCH
  THEN [b EXCEPT !.batches = Append(@, <<>>), !.currentBatchIndex = @ + 1,
                 !.operationsInCurrentBatch = 0]
  ELSE b

\* `if (operationsInCurrentBatch >= MAX_OPS_PER_BATCH)`: open the next batch
closeFullBatch(b) ==
  IF b.operationsInCurrentBatch >= MAX_OPS_PER_BATCH
  THEN [b EXCEPT !.batches = Append(@, <<>>), !.currentBatchIndex = @ + 1,
                 !.operationsInCurrentBatch = 0]
  ELSE b

\* (variant: childCount is left at 0 for every imported record)
taskToSave_noCount(task, parentId, level, newPath) ==
  [title |-> task.title, parentId |-> parentId, level |-> level, path |-> newPath,
   childCount |-> 0, status |-> task.status,
   importance |-> task.importance, urgency |-> task.urgency,
   mloImportance |-> task.mloImportance, mloUrgency |-> task.mloUrgency]

taskToSave(task, parentId, level, newPath) ==
  [title |-> task.title, parentId |-> parentId, level |-> level, path |-> newPath,
   childCount |-> Len(task.children), status |-> task.status,
   importance |-> task.importance, urgency |-> task.urgency,
   mloImportance |-> task.mloImportance, mloUrgency |-> task.mloUrgency]

\* processNodeForBatch, and the `for (const ... of ...)` loops that call it
\* for the roots and for the children of a node (evaluated by halves).
RECURSIVE processNodeForBatch(_, _, _, _, _)
RECURSIVE forEachTask(_, _, _, _, _)
processNodeForBatch(b, task, parentId, level, path) ==
  LET docRef == b.nextRef
      newPath == Append(path, task.title)
      set == [b EXCEPT !.totalTasksProcessed = @ + 1,
                       !.nextRef = @ + 1,
                       !.batches[b.currentBatchIndex] =
                           Append(@, [ref |-> docRef,
                                      data |-> taskToSave(task, parentId, level, newPath)]),
                       !.operationsInCurrentBatch = @ + 1]
  IN forEachTask(closeFullBatch(set), task.children, docRef, level + 1, newPath)

forEachTask(b, taskList, parentId, level, path) ==
  IF Len(taskList) = 0 THEN b
  ELSE IF Len(taskList) = 1 THEN processNodeForBatch(b, taskList[1], parentId, level, path)
  ELSE LET h == Len(taskList) \div 2
           firstHalf == forEachTask(b, SubSeq(taskList, 1, h), parentId, level, path)
       IN IF firstHalf.nextRef > b.nextRef
          THEN forEachTask(firstHalf, SubSeq(taskList, h + 1, Len(taskList)), parentId, level, path)
          ELSE firstHalf

\* batch.commit(): the set operations of one batch are applied together.
\* (The docRefs of a batch are consecutive auto ids.)
commit(st, batch) ==
  IF Len(batch) = 0 THEN st
  ELSE LET first == batch[1].ref
           refs == first..(first + Len(batch) - 1)
       IN [i \in DOMAIN st \cup refs |-> IF i \in refs THEN batch[i - first + 1].data ELSE st[i]]

\* batches.map(batch => batch.commit())
RECURSIVE commitFrom(_, _, _, _)
commitFrom(st, batches, k, failing) ==
  IF k > Len(batches) THEN st
  ELSE commitFrom(IF k \in failing THEN st ELSE commit(st, batches[k]), batches, k + 1, failing)

\* main -> processTaskNode -> importToFirestore.  All batches are committed
\* at once (Promise.all); the commits of the batches in `failing` reject,
\* the others go through.  A rejection reaches main's catch, which prints
\* the error's message and exits; otherwise the number of tasks is logged.
\* The script imports one file per run.
importToFirestore(outline, failing) ==
  LET b == forEachTask(newBatches(nextId), processTaskNode(outline), Null, 0, <<>>)
      failed == failing \cap (1..Len(b.batches))
  IN /\ ops = 0
     /\ ops' = 1
     /\ store' = commitFrom(store, b.batches, 1, failed)
     /\ nextId' = b.nextRef
     /\ last' = [op |-> "importToFirestore", target |-> outline, ok |-> failed = {},
                 first |-> nextId,
                 batches |-> [k \in 1..Len(b.batches) |-> Len(b.batches[k])], failed |-> failed,
                 reported |-> IF failed = {} THEN b.totalTasksProcessed ELSE Absent]
     /\ UNCHANGED <<view, ui, calls>>

\* the outlines imported: small nested ones (with caption-less nodes), and
\* flat ones around the batch size
Captions == {"", "n"}
Leaves == {TaskNode(c, NoText, NoText, <<>>) : c \in Captions}
Level1 == {TaskNode(c, NoText, NoText, kids) :
             c \in Captions, kids \in {<<>>} \cup {<<k>> : k \in Leaves} \cup (Leaves \X Leaves)}
NestedOutlines ==
  {<<>>} \cup {<<r>> : r \in Level1} \cup (Level1 \X Level1)
    \cup {<<TaskNode(c, NoText, NoText, <<k>>)>> : c \in Captions, k \in Level1}

FlatSizes == {499, 500, 1000}
FlatOutline(n) == [k \in 1..n |-> TaskNode("n", NoText, NoText, <<>>)]

MaxFailing == 3

\* the collection the script runs against: empty, or with tasks of the app
ExistingStores ==
  {<<>>, <<InboxDoc>>, <<InboxDoc, [BlankDoc EXCEPT !.title = "v", !.parentId = 1]>>}

InitImport ==
  /\ store \in ExistingStores
  /\ nextId = Len(store) + 1
  /\ view = <<>>
  /\ ops = 0
  /\ last = Outcome("init", 0, TRUE)
  /\ ui = <<>>
  /\ calls = <<>>

NextImport ==
  \/ \E outline \in NestedOutlines, failing \in SUBSET (1..MaxFailing) :
       importToFirestore(outline, failing)
  \/ \E n \in FlatSizes, failing \in SUBSET (1..MaxFailing) :
       importToFirestore(FlatOutline(n), failing)

SpecImport == InitImport /\ [][NextImport]_vars

\* ---- the importance / urgency scalars: outlines of one node carrying any
\* raw scalar, and outlines written by the app's MLO export.
\* importanceToMLO / urgencyToMLO: Math.round((x - 1) * 50)
importanceToMLO(importance) == (importance - 1) * 50
urgencyToMLO(urgency) == (urgency - 1) * 50

\* generateTaskNode: <Importance> and <Urgency> carry the converted values
\* of `task.importance || 3` and `task.urgency || 3` as text
generateTaskNode(task) ==
  TaskNode(task.title, toString(importanceToMLO(OrElse(task.importance, 3))),
           toString(urgencyToMLO(OrElse(task.urgency, 3))), <<>>)

MaxRaw == 200
RawScalars == {NoText} \cup {toString(r) : r \in 0..MaxRaw}
OtherScalars == {NoText, toString(0), toString(60), toString(150)}
Buckets == 1..5

NextBucket ==
  \/ \E r \in RawScalars, u \in OtherScalars : importToFirestore(<<TaskNode("n", r, u, <<>>)>>, {})
  \/ \E r \in OtherScalars, u \in RawScalars : importToFirestore(<<TaskNode("n", r, u, <<>>)>>, {})
  \/ \E i \in Buckets, u \in Buckets :
       importToFirestore(<<generateTaskNode([title |-> "n", importance |-> i, urgency |-> u])>>, {})

SpecBucket == Init /\ [][NextBucket]_vars

\* ---------------------------------------------------------- the scorer
\* import-mlo.js, calculatePriorities.  Scores are kept in halves (a score
\* of 2.5 is the number 5), since urgency weighs 2.5.  timeEstimate is a
\* number of minutes, Absent when estimateToMinutes returned null.
Halves(x) == 2 * x

\* a task as the scorer reads it
ScoredDoc(status, importance, urgency, timeEstimate, energyLevel) ==
  [status |-> status, importance |-> importance, urgency |-> urgency,
   timeEstimate |-> timeEstimate, energyLevel |-> energyLevel,
   computedPriority |-> 0, priorityBreakdown |-> <<>>]

\* (task.importance || 3) * 3
importanceScore(task) == Halves(OrElse(task.importance, 3) * 3)
\* (task.urgency || 3) * 2.5
urgencyScore(task) == OrElse(task.urgency, 3) * 5
\* task.timeEstimate && task.timeEstimate <= 15 ? 3 : 0
timeBonus(task) ==
  IF task.timeEstimate \notin {Absent, 0} /\ task.timeEstimate <= 15 THEN Halves(3) ELSE 0
\* low -> 2, medium -> 1, anything else -> 0
energyScore(task) ==
  IF task.energyLevel = "low" THEN Halves(2)
  ELSE IF task.energyLevel = "medium" THEN Halves(1) ELSE 0

priority(task) == importanceScore(task) + urgencyScore(task) + timeBonus(task) + energyScore(task)

\* the fields of batch.update(doc.ref, ...)
priorityUpdate(task) ==
  [computedPriority |-> priority(task),
   priorityBreakdown |-> [importance |-> importanceScore(task), urgency |-> urgencyScore(task),
                          quickWin |-> timeBonus(task), energy |-> energyScore(task)]]

\* where('status', '==', 'next_action')
tasksSnapshot(st) == {i \in DOMAIN st : st[i].status = "next_action"}

\* calculatePriorities: one update per task of the snapshot, all of them in
\* the single `batch`, committed once.
calculatePriorities ==
  LET docs == tasksSnapshot(store)
  IN /\ ops = 0
     /\ ops' = 1
     /\ store' = [i \in DOMAIN store |->
                    IF i \in docs THEN Merge(store[i], priorityUpdate(store[i])) ELSE store[i]]
     /\ last' = [op |-> "calculatePriorities", target |-> docs, ok |-> TRUE,
                 batches |-> <<Cardinality(docs)>>, count |-> Cardinality(docs)]
     /\ UNCHANGED <<view, nextId, ui, calls>>

\* the collections the scorer runs on: one task with any combination of
\* the scored fields, and collections of many active tasks
Statuses == {"next_action", "done"}
Scales == {Null, 1, 3, 5}
Estimates == {Absent, 0, 10, 15, 16}
EnergyLevels == {"low", "medium", "high"}
ActiveSizes == {499, 500, 501}
ManyActive(n) == [k \in 1..n |-> ScoredDoc("next_action", 3, 3, Absent, "medium")]

ScoredStores ==
  {<<ScoredDoc(s, i, u, e, g)>> : s \in Statuses, i \in Scales, u \in Scales,
                                  e \in Estimates, g \in EnergyLevels}
    \cup {ManyActive(n) : n \in ActiveSizes}

InitPriorities ==
  /\ store \in ScoredStores
  /\ nextId = Len(store) + 1
  /\ view = <<>>
  /\ ops = 0
  /\ last = Outcome("init", 0, TRUE)
  /\ ui = <<>>
  /\ calls = <<>>

NextPriorities == calculatePriorities

SpecPriorities == InitPriorities /\ [][NextPriorities]_vars

\* ---------------------------------------------------------- the review
\* The review fields of a task as the app's add handlers write them:
\* reviewInterval 14, lastReviewDate serverTimestamp(), nextReviewDate
\* addDays(new Date(), 14).  Instants are day numbers.
ReviewDoc(now) ==
  [status |-> "next_action", reviewInterval |-> 14, lastReviewDate |-> now,
   nextReviewDate |-> addDays(now, 14)]

\* the instants at which a handler may be called
Instants == {Today, Today + 1}

\* handleMarkReviewed(task): `task` is the task of the fetched list; the
\* interval is `task.reviewInterval || 14`.
handleMarkReviewed(t, now, fault) ==
  /\ t \in DOMAIN view
  /\ LET task == view[t]
         r == Run(store, <<updateDoc(t, [lastReviewDate |-> now,
                                         nextReviewDate |-> addDays(now, OrElse(task.reviewInterval, 14))])>>,
                  fault)
     IN /\ ops < MaxOps
        /\ ops' = ops + 1
        /\ store' = r.store
        /\ view' = IF r.ok THEN r.store ELSE view
        /\ last' = [op |-> "handleMarkReviewed", target |-> t, ok |-> r.ok, now |-> now]
        /\ UNCHANGED <<nextId, ui, calls>>

\* what a voice 'update' may carry for the review interval (days)
ReviewIntervals == {0, 1, 7, 30}
ReviewUpdates == {[reviewInterval |-> n] : n \in ReviewIntervals}

InitReview ==
  /\ store \in {<<ReviewDoc(Today)>>, <<ReviewDoc(Today), ReviewDoc(Today)>>}
  /\ view = store
  /\ nextId = Len(store) + 1
  /\ ops = 0
  /\ last = Outcome("init", 0, TRUE)
  /\ ui = <<>>
  /\ calls = <<>>

NextReview ==
  \/ \E t \in Ids, now \in Instants, fault \in 0..1 : handleMarkReviewed(t, now, fault)
  \/ \E t \in VoiceIds, u \in ReviewUpdates : handleTaskUpdate_update(t, u, 0)

SpecReview == InitReview /\ [][NextReview]_vars

\* ---------------------------------------------------------- the voice
\* VoiceInterface.  ui holds the component's state and refs:
\*   pendingConfirmation, isProcessing   React state (as last set)
\*   isProcessingRef                     the ref, copied from the state by
\*                                       an effect after each render
\*   wired                               the pendingConfirmation seen by the
\*                                       handleVoiceCommand that the effect
\*                                       last attached to the recognition
\*   stale                               a dependency of handleVoiceCommand
\*                                       changed since the last render
\*   listening, onend                    the recognition is started / has
\*                                       ended and its onend is yet to run
\*   log                                 the actions executeAction passed to
\*                                       onTaskUpdate
\* calls holds the awaits in flight of handleVoiceCommand.
NoPending == [action |-> "none", id |-> 0]
Modifying == {"add_task", "update_task", "complete_task", "delete_task"}
VoiceActions == Modifying \cup {"query_tasks", "none"}
Commands == {"yes", "no", "other"}

\* the utterances of one session
MaxUtterances == 3

\* an await in flight of the handleVoiceCommand call for utterance `call`
Await(call, stage, action, confirmed) ==
  [call |-> call, stage |-> stage, action |-> action, confirmed |-> confirmed]

\* executeAction -> onTaskUpdate: the write of handleTaskUpdate for the
\* action (the descriptor names task 1, or a new task under it)
voiceWrites(action) ==
  CASE action = "add_task" -> <<addDoc(nextId, [BlankDoc EXCEPT !.title = "v", !.parentId = 1])>>
    [] action = "update_task" -> <<updateDoc(1, [title |-> "u"])>>
    [] action = "complete_task" -> <<updateDoc(1, [status |-> "done"])>>
    [] action = "delete_task" -> <<deleteDoc(1)>>
    [] OTHER -> <<>>

\* recognition.onresult with a final transcript: handleVoiceCommand(command).
\* The recognition is not continuous: it ends after the final result.
onresult(command) ==
  /\ ui.listening
  /\ ops < MaxUtterances
  /\ ops' = ops + 1
  /\ last' = Outcome("handleVoiceCommand", command, TRUE)
  /\ IF ui.wired # NoPending /\ command = "yes"
     THEN \* await executeAction(pendingConfirmation)
          /\ calls' = calls \cup {Await(ops + 1, "execute", ui.wired, TRUE)}
          /\ ui' = [ui EXCEPT !.listening = FALSE, !.onend = TRUE, !.isProcessing = TRUE, !.stale = TRUE]
     ELSE IF ui.wired # NoPending /\ command = "no"
     THEN \* setPendingConfirmation(null); setIsProcessing(false)
          /\ calls' = calls
          /\ ui' = [ui EXCEPT !.listening = FALSE, !.onend = TRUE, !.isProcessing = FALSE,
                              !.pendingConfirmation = NoPending, !.stale = TRUE]
     ELSE \* await fetch(processVoiceCommand)
          /\ calls' = calls \cup {Await(ops + 1, "fetch", NoPending, FALSE)}
          /\ ui' = [ui EXCEPT !.listening = FALSE, !.onend = TRUE, !.isProcessing = TRUE, !.stale = TRUE]
  /\ UNCHANGED <<store, view, nextId>>

\* the response of processVoiceCommand arrives: whatever the language model
\* answered for `action` and `needsConfirmation`.  The response is spoken
\* (setIsProcessing(false) when the speech ends); the action is held for
\* confirmation or executed at once.
response(c, action, needsConfirmation) ==
  /\ c \in calls
  /\ c.stage = "fetch"
  /\ LET act == [action |-> action, id |-> c.call]
         spoken == Await(c.call, "speak", NoPending, FALSE)
         rest == calls \ {c}
     IN IF needsConfirmation
        THEN /\ ui' = [ui EXCEPT !.pendingConfirmation = act, !.stale = TRUE]
             /\ calls' = rest \cup {spoken}
        ELSE IF action # "none"
        THEN /\ ui' = [ui EXCEPT !.stale = TRUE]
             /\ calls' = rest \cup {spoken, Await(c.call, "execute", act, FALSE)}
        ELSE /\ ui' = [ui EXCEPT !.stale = TRUE]
             /\ calls' = rest \cup {spoken}
  /\ last' = Outcome("processVoiceCommand", action, TRUE)
  /\ UNCHANGED <<store, view, nextId, ops>>

\* utterance.onend of the spoken response
speechEnd(c) ==
  /\ c \in calls
  /\ c.stage = "speak"
  /\ calls' = calls \ {c}
  /\ ui' = [ui EXCEPT !.isProcessing = FALSE]
  /\ last' = Outcome("speak", 0, TRUE)
  /\ UNCHANGED <<store, view, nextId, ops>>

\* executeAction runs onTaskUpdate; in the confirmation branch
\* setPendingConfirmation(null) and setIsProcessing(false) follow the await.
executeAction(c) ==
  /\ c \in calls
  /\ c.stage = "execute"
  /\ LET a == c.action
         ws == voiceWrites(a.action)
         r == Run(store, ws, 0)
     IN /\ store' = r.store
        /\ view' = IF r.ok THEN r.store ELSE view
        /\ nextId' = nextId + Cardinality({j \in 1..r.done : ws[j].kind = "set"})
        /\ last' = Outcome("executeAction", a.action, r.ok)
        /\ ui' = IF c.confirmed
                 THEN [ui EXCEPT !.log = Append(@, [action |-> a.action, id |-> a.id, confirmed |-> TRUE]),
                                 !.pendingConfirmation = NoPending, !.isProcessing = FALSE, !.stale = TRUE]
                 ELSE [ui EXCEPT !.log = Append(@, [action |-> a.action, id |-> a.id, confirmed |-> FALSE])]
  /\ calls' = calls \ {c}
  /\ UNCHANGED ops

\* recognition.onend: restart unless processing, as the ref says
onend ==
  /\ ui.onend
  /\ ui' = [ui EXCEPT !.onend = FALSE, !.listening = @ \/ ~ui.isProcessingRef]
  /\ last' = Outcome("onend", 0, TRUE)
  /\ UNCHANGED <<store, view, nextId, ops, calls>>

\* a render and its effects: the ref takes the state's value; when
\* handleVoiceCommand changed, the effect's cleanup stops the recognition
\* and a new one (not started) gets the new handleVoiceCommand.
render ==
  /\ ui.stale \/ ui.isProcessingRef # ui.isProcessing
  /\ ui' = IF ui.stale
           THEN [ui EXCEPT !.isProcessingRef = ui.isProcessing, !.wired = ui.pendingConfirmation,
                           !.stale = FALSE, !.listening = FALSE, !.onend = @ \/ ui.listening]
           ELSE [ui EXCEPT !.isProcessingRef = ui.isProcessing]
  /\ last' = Outcome("render", 0, TRUE)
  /\ UNCHANGED <<store, view, nextId, ops, calls>>

\* the microphone button (enabled while not processing) switched off and on
startListening ==
  /\ ~ui.isProcessingRef /\ ~ui.stale
  /\ ~ui.listening
  /\ ui' = [ui EXCEPT !.listening = TRUE]
  /\ last' = Outcome("startListening", 0, TRUE)
  /\ UNCHANGED <<store, view, nextId, ops, calls>>

InitVoice ==
  /\ store = <<[BlankDoc EXCEPT !.title = "t", !.parentId = Null, !.status = "next_action"]>>
  /\ view = store
  /\ nextId = 2
  /\ ops = 0
  /\ last = Outcome("init", 0, TRUE)
  /\ ui = [pendingConfirmation |-> NoPending, isProcessing |-> FALSE, isProcessingRef |-> FALSE,
           wired |-> NoPending, stale |-> FALSE, listening |-> TRUE, onend |-> FALSE, log |-> <<>>]
  /\ calls = {}

NextVoice ==
  \/ \E command \in Commands : onresult(command)
  \/ \E c \in calls, a \in VoiceActions, n \in BOOLEAN : response(c, a, n)
  \/ \E c \in calls : speechEnd(c)
  \/ \E c \in calls : executeAction(c)
  \/ onend
  \/ render
  \/ startListening

SpecVoice == InitVoice /\ [][NextVoice]_vars

\* ---------------------------------------------------------- the keyboard
\* useKeyboardShortcuts.  ui holds
\*   sequenceKey, sequenceTimeout   the hook's state (timer id, 0: null)
\*   selectedTaskIndex, currentView, taskFilter   the app's state
\*   handler     the values closed over by the handleKeyDown that the
\*               effect last attached to the document
\*   timers      the timers set and not yet fired or cleared: id, time left
\*   nextTimer   the next timer id
\*   prefix, elapsed   the last prefix key pressed as a first key, and the
\*               time since, while no other key was pressed
\* Times are milliseconds; the clock advances by Tick.
NoKey == ""
Tick == 500
MaxKeys == 3
SequenceKeys == {"g", "f", "a"}
Keys == SequenceKeys \cup {"i", "j"}
FlatTasks == 2

\* handleSequence(first, second)
handleSequence(u, first, second) ==
  IF first = "g" /\ second \in {"i", "t", "a", "r"}
  THEN [u EXCEPT !.currentView = CASE second = "i" -> "inbox" [] second = "t" -> "todo"
                                    [] second = "a" -> "alltasks" [] OTHER -> "recent"]
  ELSE IF first = "f" /\ second \in {"a", "o", "c"}
  THEN [u EXCEPT !.taskFilter = CASE second = "a" -> "all" [] second = "o" -> "active"
                                  [] OTHER -> "completed"]
  ELSE u

\* document keydown -> handleKeyDown(e), outside input fields, no modifier
handleKeyDown(key) ==
  LET h == ui.handler
      inSequence == h.sequenceKey # NoKey
      expected == IF ui.prefix # NoKey /\ ui.elapsed < 1500 THEN "sequence"
                  ELSE IF ui.prefix # NoKey /\ ui.elapsed = 1500 THEN "either" ELSE "single"
      mode == IF inSequence THEN "sequence" ELSE "single"
      startsPrefix == (expected = "single" \/ (expected = "either" /\ ~inSequence))
                        /\ key \in SequenceKeys
      noted == [ui EXCEPT !.prefix = IF startsPrefix THEN key ELSE NoKey, !.elapsed = 0]
  IN /\ ops < MaxKeys
     /\ ops' = ops + 1
     /\ last' = [op |-> "handleKeyDown", target |-> key, ok |-> TRUE, mode |-> mode,
                 first |-> h.sequenceKey, prefix |-> ui.prefix, elapsed |-> ui.elapsed]
     /\ ui' = IF inSequence
              THEN \* clearTimeout(sequenceTimeout); handleSequence; setSequenceKey(null)
                   [handleSequence(noted, h.sequenceKey, key) EXCEPT
                      !.timers = {t \in @ : t.id # h.sequenceTimeout}, !.sequenceKey = NoKey]
              ELSE IF key \in SequenceKeys
              THEN \* setSequenceKey(key); setSequenceTimeout(setTimeout(..., 1500))
                   [noted EXCEPT !.sequenceKey = key, !.sequenceTimeout = ui.nextTimer,
                                 !.timers = @ \cup {[id |-> ui.nextTimer, left |-> 1500]},
                                 !.nextTimer = @ + 1]
              ELSE IF key = "j"
              THEN [noted EXCEPT !.selectedTaskIndex =
                                   IF h.selectedTaskIndex + 1 < FlatTasks - 1
                                   THEN h.selectedTaskIndex + 1 ELSE FlatTasks - 1]
              ELSE noted
     /\ UNCHANGED <<store, view, nextId, calls>>

\* a timer set by handleKeyDown fires: setSequenceKey(null)
sequenceTimeout(t) ==
  /\ t \in ui.timers
  /\ t.left = 0
  /\ ui' = [ui EXCEPT !.timers = @ \ {t}, !.sequenceKey = NoKey]
  /\ last' = Outcome("setTimeout", t.id, TRUE)
  /\ UNCHANGED <<store, view, nextId, ops, calls>>

\* the app renders, for a change of the hook's state or of any other state
\* (onToggleVoice is a new function at every render, so the effect's
\* dependencies always differ): the effect's cleanup removes the listener
\* and clears the timer of the sequenceTimeout it closed over; the effect
\* attaches a handleKeyDown closing over the current state.
keyboardEffect ==
  /\ ui' = [ui EXCEPT !.timers = {t \in @ : t.id # ui.handler.sequenceTimeout},
                      !.handler = [sequenceKey |-> ui.sequenceKey,
                                   sequenceTimeout |-> ui.sequenceTimeout,
                                   selectedTaskIndex |-> ui.selectedTaskIndex]]
  /\ ui' # ui
  /\ last' = Outcome("useEffect", 0, TRUE)
  /\ UNCHANGED <<store, view, nextId, ops, calls>>

\* time passes; a timer that is due fires first
tick ==
  /\ ui.prefix # NoKey
  /\ ui.elapsed < 1500 + Tick
  /\ \A t \in ui.timers : t.left > 0
  /\ ui' = [ui EXCEPT !.elapsed = @ + Tick,
                      !.timers = {[id |-> t.id, left |-> IF t.left > Tick THEN t.left - Tick ELSE 0] : t \in @}]
  /\ last' = Outcome("tick", 0, TRUE)
  /\ UNCHANGED <<store, view, nextId, ops, calls>>

InitKeys ==
  /\ store = <<>>
  /\ view = <<>>
  /\ nextId = 1
  /\ ops = 0
  /\ last = Outcome("init", 0, TRUE)
  /\ ui = [sequenceKey |-> NoKey, sequenceTimeout |-> 0, selectedTaskIndex |-> -1,
           currentView |-> "alltasks", taskFilter |-> "all",
           handler |-> [sequenceKey |-> NoKey, sequenceTimeout |-> 0, selectedTaskIndex |-> -1],
           timers |-> {}, nextTimer |-> 1, prefix |-> NoKey, elapsed |-> 0]
  /\ calls = {}

NextKeys ==
  \/ \E key \in Keys : handleKeyDown(key)
  \/ \E t \in ui.timers : sequenceTimeout(t)
  \/ keyboardEffect
  \/ tick

SpecKeys == InitKeys /\ [][NextKeys]_vars

\* ---------------------------------------------------------- two sessions
\* The same handlers with their awaits as separate steps, run from two
\* sessions of the owner (two tabs or devices).  ui[s] is the `tasks` state
\* of session s; calls holds the invocations: the session, the writes still
\* to be awaited (computed from the session's snapshot when the handler
\* starts, as the handler's code does from its props), `data` the id of the
\* document created last, `with` the invocations that were in flight when
\* this one started.  A finished invocation stays in calls as "done".
Sessions == 1..2
MaxCalls == 2
Created == -3       \* docRef.id of the Inbox the invocation creates

Invocation(s, op, target, stage, ws) ==
  [id |-> ops + 1, session |-> s, op |-> op, target |-> target, stage |-> stage, writes |-> ws,
   ok |-> TRUE, data |-> Absent, with |-> {d.id : d \in {e \in calls : e.stage # "done"}}]

start(c) ==
  /\ ops < MaxCalls
  /\ ops' = ops + 1
  /\ calls' = calls \cup {c}
  /\ last' = Outcome(c.op, c.target, TRUE)
  /\ UNCHANGED <<store, view, nextId, ui>>

\* fetchTasks of a session
fetchTasks_session(s) ==
  /\ ui[s] # store
  /\ ui' = [ui EXCEPT ![s] = store]
  /\ last' = Outcome("fetchTasks", s, TRUE)
  /\ UNCHANGED <<store, view, nextId, ops, calls>>

\* handleAddChild of a rendered task
handleAddChild_start(s, t) ==
  /\ t \in InTree(ui[s])
  /\ start(Invocation(s, "handleAddChild", t, "write",
       <<addDoc(0, [BlankDoc EXCEPT !.title = "c", !.parentId = t,
                                    !.level = OrElse(ui[s][t].level, 0) + 1,
                                    !.status = "next_action", !.childCount = 0]),
         updateDoc(t, [childCount |-> OrElse(ui[s][t].childCount, 0) + 1])>>))

\* handleDelete of a rendered task (all-tasks view, no filter)
handleDelete_start(s, t) ==
  LET v == ui[s]
      task == v[t]
  IN /\ t \in filterTasks(v, "all")
     /\ start(Invocation(s, "handleDelete", t, "write",
          deleteRecursive(v, filterTasks(v, "all"), t)
            \o (IF task.parentId \notin {Absent, Null}
                THEN <<updateDoc(task.parentId, [childCount |-> IF OrElse(task.childCount, 1) - 1 > 0
                                                            THEN OrElse(task.childCount, 1) - 1 ELSE 0])>>
                ELSE <<>>)))

\* handleTaskAction 'delete' (keyboard d) on the selected task
handleTaskAction_delete_start(s, t) ==
  /\ t \in InTree(ui[s])
  /\ start(Invocation(s, "handleTaskAction:delete", t, "write", <<deleteDoc(t)>>))

\* handleTaskUpdate 'delete' (voice) of a task the assistant was shown
handleTaskUpdate_delete_start(s, t) ==
  /\ t \in DOMAIN ui[s]
  /\ start(Invocation(s, "handleTaskUpdate:delete", t, "write", <<deleteDoc(t)>>))

\* TaskDetailEditor opened on the session's tree, a parent picked from its
\* list, handleSaveFromEditor
handleSaveFromEditor_start(s, t, p) ==
  /\ t \in InTree(ui[s])
  /\ p \in potentialParents(ui[s], t)
  /\ start(Invocation(s, "handleSaveFromEditor", t, "write",
       <<updateDoc(t, [parentId |-> p, dueDate |-> OrElse(ui[s][t].dueDate, Null)])>>))

\* handleTaskUpdate 'add' with no parentId: getOrCreateInboxId comes first
handleTaskUpdate_add_start(s) ==
  start(Invocation(s, "handleTaskUpdate:add", Absent, "getDocs", <<>>))

\* the document an awaited addDoc writes: its id is chosen then, and a
\* parentId that is the created Inbox's id is known by then
Resolve(c, w) ==
  IF w.kind = "set"
  THEN [w EXCEPT !.id = nextId,
                 !.doc = IF w.doc.parentId = Created THEN [w.doc EXCEPT !.parentId = c.data] ELSE w.doc]
  ELSE w

\* one await of an invocation resolves or rejects
await(c) ==
  /\ c \in calls
  /\ c.stage # "done"
  /\ IF c.stage = "getDocs"
     THEN \* getOrCreateInboxId: the query's answer decides what is written
          LET found == inboxQuery(store)
          IN /\ \E ws \in (IF found = {}
                           THEN {<<addDoc(0, InboxDoc), addDoc(0, newTaskData(Created, <<"", Absent>>))>>}
                           ELSE {<<addDoc(0, newTaskData(inboxId, <<"", Absent>>))>> : inboxId \in found}) :
                  calls' = (calls \ {c}) \cup {[c EXCEPT !.stage = "write", !.writes = ws]}
             /\ UNCHANGED <<store, nextId, ui>>
     ELSE LET w == Resolve(c, Head(c.writes))
              rest == Tail(c.writes)
          IN IF WriteOk(store, w)
             THEN /\ store' = ApplyWrite(store, w)
                  /\ nextId' = IF w.kind = "set" THEN nextId + 1 ELSE nextId
                  /\ calls' = (calls \ {c}) \cup
                                {[c EXCEPT !.writes = rest, !.data = IF w.kind = "set" THEN w.id ELSE @,
                                           !.stage = IF rest = <<>> THEN "done" ELSE "write"]}
                  \* onUpdate when the last write is through
                  /\ ui' = IF rest = <<>> THEN [ui EXCEPT ![c.session] = store'] ELSE ui
             ELSE /\ calls' = (calls \ {c}) \cup {[c EXCEPT !.stage = "done", !.ok = FALSE]}
                  /\ UNCHANGED <<store, nextId, ui>>
  /\ last' = Outcome("await", c.id, TRUE)
  /\ UNCHANGED <<view, ops>>

\* the collection both sessions have fetched: P with its child A, and B
SessionStore ==
  <<[BlankDoc EXCEPT !.title = "q", !.parentId = Null, !.level = 0, !.status = "next_action", !.childCount = 1],
    [BlankDoc EXCEPT !.title = "c", !.parentId = 1, !.level = 1, !.status = "next_action", !.childCount = 0],
    [BlankDoc EXCEPT !.title = "q", !.parentId = Null, !.level = 0, !.status = "next_action", !.childCount = 0]>>

InitSessions ==
  /\ store = SessionStore
  /\ view = <<>>
  /\ nextId = Len(SessionStore) + 1
  /\ ops = 0
  /\ last = Outcome("init", 0, TRUE)
  /\ ui = [s \in Sessions |-> SessionStore]
  /\ calls = {}

NextSessions ==
  \/ \E s \in Sessions : fetchTasks_session(s)
  \/ \E s \in Sessions, t \in Ids : handleAddChild_start(s, t)
  \/ \E s \in Sessions, t \in Ids : handleDelete_start(s, t)
  \/ \E s \in Sessions, t \in Ids : handleTaskAction_delete_start(s, t)
  \/ \E s \in Sessions, t \in Ids : handleTaskUpdate_delete_start(s, t)
  \/ \E s \in Sessions, t \in Ids, p \in Ids : handleSaveFromEditor_start(s, t, p)
  \/ \E s \in Sessions : handleTaskUpdate_add_start(s)
  \/ \E c \in calls : await(c)

SpecSessions == InitSessions /\ [][NextSessions]_vars

\* ====================================================== properties
Live(st) == DOMAIN st

\* the tasks whose parentId is i
ChildrenOf(st, i) == {c \in Live(st) : st[c].parentId = i}

\* the tasks met by following parentId upward from i
RECURSIVE Up(_, _, _)
Up(st, i, seen) ==
  LET p == st[i].parentId
  IN IF p \notin Live(st) \/ p \in seen THEN seen ELSE Up(st, p, seen \cup {p})

Ancestors(st, i) == Up(st, i, {})

\* a task and all its descendants
Descendants(st, i) == Reach(st, {i}) \ {i}

HasNoParent(d) == d.parentId \in {Absent, Null}
Inboxes(st) == {i \in Live(st) : st[i].title = InboxTitle /\ HasNoParent(st[i])}

\* C1: every stored task's childCount (a missing one read as 0) equals the
\* number of stored tasks whose parentId is that task's id.
C1_ChildCountIsLiveCount ==
  \A t \in Live(store) : OrElse(store[t].childCount, 0) = Cardinality(ChildrenOf(store, t))

\* C2: following parentId links upward from a stored task never leads back
\* to that task.
C2_NoTaskIsItsOwnAncestor ==
  \A t \in Live(store) : t \notin Ancestors(store, t)

\* C3: at most one task titled "<Inbox>" with no parent exists.
C3_AtMostOneInbox == Cardinality(Inboxes(store)) <= 1

\* C4: a move of T under T itself or under a descendant of T (saved from
\* the editor or sent as a voice 'update') is rejected and writes nothing.
MoveOps == {"handleTaskUpdate:update", "handleSaveFromEditor"}

C4_IllegalMoveRejected ==
  [][\A t \in Live(store), p \in Ids :
       (/\ p \in Reach(store, {t})
        /\ last'.op \in MoveOps /\ last'.target = t
        /\ (handleTaskUpdate_update(t, [parentId |-> p], 0) \/ handleSaveFromEditor(t, p, 0)))
       => (store' = store /\ ~last'.ok)]_vars

\* C5: a delete of a stored task T, through the trash button, the keyboard
\* or voice, removes exactly T and its descendants and lowers the former
\* parent's childCount by one, not below 0.
DeleteOps == {"handleDelete", "handleTaskAction:delete", "handleTaskUpdate:delete"}

C5_DeleteRemovesSubtree ==
  [][(last'.op \in DeleteOps /\ last'.ok /\ last'.target \in Live(store)) =>
       LET t == last'.target
           par == store[t].parentId
       IN /\ Live(store) \ Live(store') = Reach(store, {t})
          /\ Cardinality(Live(store)) - Cardinality(Live(store')) = Cardinality(Descendants(store, t)) + 1
          /\ (par \in Live(store) /\ par \notin Reach(store, {t})) =>
               /\ par \in Live(store')
               /\ store'[par].childCount =
                    (IF OrElse(store[par].childCount, 0) >= 1 THEN OrElse(store[par].childCount, 0) - 1 ELSE 0)]_vars

\* C6: an add with the parent omitted or given as "<Inbox>" stores the new
\* task under the owner's Inbox with childCount 0 and raises the Inbox's
\* childCount by exactly one.
InboxAdd(n) ==
  \/ \E p \in {Absent, InboxAlias}, sched \in VoiceAddSchedules : handleTaskUpdate_add(p, sched, 0) /\ n = last'.target
  \/ addEmailTask(0) /\ n = last'.target

C6_InboxAddCountsChild ==
  [][\A n \in Ids : InboxAdd(n) =>
       LET inbox == store'[n].parentId
       IN /\ inbox \in Inboxes(store')
          /\ store'[n].childCount = 0
          /\ store'[inbox].childCount =
               (IF inbox \in Live(store) THEN OrElse(store[inbox].childCount, 0) ELSE 0) + 1]_vars

\* C7: when a task with a recurrence pattern goes to done, by whatever
\* handler, exactly one successor is created, with status next_action and
\* the original due date advanced by the interval (weekly: 7 days); the
\* original stays done with its due date.
Interval(pattern) ==
  CASE pattern = "daily" -> 1 [] pattern = "weekly" -> 7 [] pattern = "biweekly" -> 14 [] OTHER -> 7

C7_CompletionSpawnsSuccessor ==
  [][\A t \in Live(store) :
       (/\ t \in Live(store')
        /\ store[t].status # "done" /\ store'[t].status = "done"
        /\ store[t].recurrencePattern = "weekly" /\ store[t].dueDate = 1)
       => /\ store'[t].dueDate = store[t].dueDate
          /\ \E s \in Ids :
               /\ Live(store') \ Live(store) = {s}
               /\ store'[s].status = "next_action"
               /\ store'[s].dueDate = store[t].dueDate + Interval("weekly")]_vars

\* C8: a handler whose write fails leaves none of its other writes in the
\* store.
C8_AllOrNothing == [][~last'.ok => store' = store]_vars

\* C9: every stored task's level is 0 without a parent and its parent's
\* level + 1 otherwise, and its path lists the titles along its parent
\* chain, ending with its own title.
RECURSIVE TitlesTo(_, _, _)
TitlesTo(st, i, seen) ==
  LET p == st[i].parentId
  IN IF p \notin Live(st) \/ p \in seen THEN <<st[i].title>>
     ELSE TitlesTo(st, p, seen \cup {p}) \o <<st[i].title>>

C9_LevelAndPathFollowParent ==
  \A t \in Live(store) :
    /\ HasNoParent(store[t]) => store[t].level = 0
    /\ store[t].parentId \in Live(store) => store[t].level = store[store[t].parentId].level + 1
    /\ store[t].path = TitlesTo(store, t, {t})

\* C10: a voice update, complete or delete whose taskId names no stored
\* task fails and leaves the store unchanged.
TargetedOps == {"handleTaskUpdate:update", "handleTaskUpdate:complete", "handleTaskUpdate:delete"}

C10_MissingTargetFails ==
  [][(last'.op \in TargetedOps /\ last'.target \notin Live(store))
       => (store' = store /\ ~last'.ok)]_vars
\* a task whose parent chain leads back to itself
OnCycle(st, i) == i \in Ancestors(st, i)

ParentMissing(st, t) == st[t].parentId \notin {Absent, Null} /\ st[t].parentId \notin DOMAIN st

\* C11: no node of the forest built from the fetched list is reachable from
\* itself by following children links, whatever the parent references of
\* the list are (self-parents and longer cycles included).
C11_ForestHasNoCycle ==
  \A n \in InTree(view) : n \notin Reach(view, children(view, n))

C11_Witness ==
  /\ \E t \in DOMAIN view : OnCycle(view, t)
  /\ \E n \in InTree(view) : children(view, n) # {}

\* C12: a fetched record whose parentId names a record missing from the
\* list, or whose parent references form a cycle, is a root of the forest
\* (it is not dropped).
C12_DanglingOrCyclicIsRoot ==
  \A t \in DOMAIN view :
     (\/ ParentMissing(view, t)
      \/ OnCycle(view, t))
     => t \in buildTaskTree(view)

CompletedStrictlyBefore(d, cutoff) == d.completedDate # Null /\ d.completedDate < cutoff

Imported == last.first..(nextId - 1)

RECURSIVE CommittedFrom(_)
CommittedFrom(k) ==
  IF k > Len(last.batches) THEN 0
  ELSE (IF k \in last.failed THEN 0 ELSE last.batches[k]) + CommittedFrom(k + 1)

\* C15: after an import whose groups all committed, every imported record
\* with a parent names a record of the same import that was generated before
\* it, all records generated between the two lying below that parent (the
\* order is the depth-first pre-order), and every imported record's
\* childCount is the number of imported records naming it as parent.
C15_ImportLinksAndCounts ==
  (last.op = "importToFirestore" /\ last.ok) =>
    LET parents == {store[c].parentId : c \in Imported}
    IN \A i \in Imported :
         /\ store[i].parentId # Null =>
              /\ store[i].parentId \in Imported
              /\ store[i].parentId < i
              /\ \A j \in (store[i].parentId + 1)..(i - 1) : store[i].parentId \in Ancestors(store, j)
         /\ IF store[i].childCount = 0 THEN i \notin parents
            ELSE store[i].childCount = Cardinality({c \in Imported : store[c].parentId = i})

C15_Witness ==
  /\ last.op = "importToFirestore" /\ last.ok
  /\ last.first > 1
  /\ Len(last.target) = 1 /\ Len(last.target[1].TaskNode) = 1
  /\ last.target[1].Caption # ""
  /\ store[last.first].childCount = 2
  /\ \A c \in Imported \ {last.first} : store[c].parentId = last.first

\* C16: no write group built by the importer holds more than 499 operations.
C16_GroupsAtMost499 ==
  last.op = "importToFirestore" => \A k \in 1..Len(last.batches) : last.batches[k] <= 499

C16_Witness ==
  /\ last.op = "importToFirestore"
  /\ Len(last.batches) = 3
  /\ last.batches[1] = 499 /\ last.batches[2] = 499 /\ last.batches[3] > 0

C18_FailureCarriesCommittedCount ==
  (last.op = "importToFirestore" /\ ~last.ok) =>
    /\ last.reported = CommittedFrom(1)
    /\ Cardinality(Imported \cap DOMAIN store) = CommittedFrom(1)

\* C19: a task with importance (urgency) bucket b, exported as (b-1)*50 and
\* imported again, has bucket b.
C19_BucketRoundTrip ==
  last.op = "importToFirestore" =>
    \A i \in Buckets, u \in Buckets :
       last.target = <<generateTaskNode([title |-> "n", importance |-> i, urgency |-> u])>>
       => (store[last.first].importance = i /\ store[last.first].urgency = u)

\* C20: a raw scalar r in 0..200 present on a node gives bucket 5 if
\* r >= 150, 4 if r >= 100, 3 if r >= 75, 2 if r >= 50, else 1; an absent
\* scalar counts as 100; importance and urgency are mapped independently.
BucketOf(text) ==
  LET r == IF text = NoText THEN 100 ELSE parseInt(text)
  IN IF r >= 150 THEN 5 ELSE IF r >= 100 THEN 4 ELSE IF r >= 75 THEN 3 ELSE IF r >= 50 THEN 2 ELSE 1

C20_BucketThresholds ==
  (last.op = "importToFirestore" /\ Len(last.target) = 1) =>
    /\ store[last.first].importance = BucketOf(last.target[1].Importance)
    /\ store[last.first].urgency = BucketOf(last.target[1].Urgency)

\* ---- the scorer
Scored == IF last.op = "calculatePriorities" THEN last.target ELSE {}
\* the bonuses as stated, in halves
QuickWinBonus(d) == IF d.timeEstimate # Absent /\ d.timeEstimate <= 15 THEN Halves(3) ELSE 0
EnergyBonus(d) == CASE d.energyLevel = "low" -> Halves(2)
                    [] d.energyLevel = "medium" -> Halves(1)
                    [] OTHER -> 0

\* C21: the score of a task with an importance and an urgency is
\* importance*3 + urgency*2.5 + quickWinBonus + energyBonus, where the
\* quick-win bonus is 3 exactly when the estimate is defined and at most 15
\* minutes (0 minutes included), and the energy bonus is 2 / 1 / 0 for
\* low / medium / high.
C21_ScoreFormula ==
  \A i \in Scored :
    (store[i].importance # Null /\ store[i].urgency # Null) =>
      store[i].computedPriority =
        Halves(store[i].importance * 3) + store[i].urgency * 5
          + QuickWinBonus(store[i]) + EnergyBonus(store[i])

\* C30: whatever the number of active tasks, the priority recompute after
\* an import puts at most 500 update operations in one atomic commit.
C30_RecomputeCommitsAtMost500 ==
  last.op = "calculatePriorities" =>
    \A k \in DOMAIN last.batches : last.batches[k] <= 500

\* ---- the review
\* C22: markReviewed on a task with interval n, called at instant t, sets
\* the task's next review to t + n days (t + 14 for n = 14) and its last
\* review to t.
C22_MarkReviewedAddsInterval ==
  (last.op = "handleMarkReviewed" /\ last.ok) =>
    LET d == store[last.target]
    IN /\ d.lastReviewDate = last.now
       /\ d.nextReviewDate = last.now + d.reviewInterval

\* ---- the voice
\* C23: no task-modifying voice action (add, update, complete, delete) is
\* executed against the store unless the user has replied affirmatively to a
\* confirmation prompt for it.
C23_ModificationsAreConfirmed ==
  \A i \in DOMAIN ui.log : ui.log[i].action \in Modifying => ui.log[i].confirmed

\* C29: an action held for confirmation is executed at most once.
C29_PendingRunsAtMostOnce ==
  \A i, j \in DOMAIN ui.log :
    (ui.log[i].confirmed /\ ui.log[j].confirmed /\ ui.log[i].id = ui.log[j].id) => i = j

\* ---- the keyboard
\* C24: after a sequence prefix key (g, f, a), the next key completes the
\* two-key sequence if it arrives within 1.5 seconds; if none arrives within
\* 1.5 seconds the prefix is discarded and the following key is handled as
\* an ordinary single-key shortcut.
C24_SequenceWindow ==
  (last.op = "handleKeyDown" /\ last.prefix # NoKey) =>
    /\ last.elapsed < 1500 => (last.mode = "sequence" /\ last.first = last.prefix)
    /\ last.elapsed > 1500 => last.mode = "single"

\* ---- two sessions
Quiet == \A c \in calls : c.stage = "done"
Ran(op) == {c \in calls : c.op = op /\ c.stage = "done" /\ c.ok}
Concurrent(c, d) == c.id \in d.with \/ d.id \in c.with

\* C25: when two add-child invocations on the same parent ran concurrently,
\* the parent's childCount equals the number of its children once both have
\* finished.
C25_ConcurrentAddChildCounts ==
  Quiet =>
    \A c, d \in Ran("handleAddChild") :
      (c # d /\ c.target = d.target /\ Concurrent(c, d) /\ c.target \in Live(store)) =>
        store[c.target].childCount = Cardinality(ChildrenOf(store, c.target))

\* C26: after two adds with an omitted parent, run concurrently while no
\* Inbox exists, there is exactly one Inbox and both new tasks are under it.
C26_ConcurrentAddsOneInbox ==
  Quiet =>
    \A c, d \in Ran("handleTaskUpdate:add") :
      (c # d /\ Concurrent(c, d)) =>
        /\ Cardinality(Inboxes(store)) = 1
        /\ \A i \in Inboxes(store) : store[c.data].parentId = i /\ store[d.data].parentId = i

\* C27: when two moves, each legal on the tree its editor was opened on,
\* have both been saved, the stored tasks contain no parentId cycle.
C27_TwoLegalMovesNoCycle ==
  (Quiet /\ Cardinality(Ran("handleSaveFromEditor")) = 2) =>
    \A i \in Live(store) : ~OnCycle(store, i)

Deletes == Ran("handleDelete") \cup Ran("handleTaskAction:delete") \cup Ran("handleTaskUpdate:delete")

\* C28: after a delete through any path, also when it interleaved with an
\* add-child under the subtree being deleted, every remaining task's
\* non-null parentId names a stored task.
C28_DeleteLeavesNoDanglingParent ==
  (Quiet /\ Deletes # {}) => \A i \in Live(store) : ~ParentMissing(store, i)

====
